---- MODULE Spec2Model ----
(***************************************************************************)
(* A model of src/email_extractor.py (class EE): the composed pattern      *)
(* grammar built by EE.__init__, Python's backtracking matcher for the     *)
(* regex constructs that grammar uses, the two normalizers, the result     *)
(* assembler and the three public entry points.                            *)
(*                                                                         *)
(* Python strings are TLA+ strings; a character is a string of length 1.   *)
(* A position p in a string s means "p characters consumed": the next      *)
(* character is SubSeq(s, p + 1, p + 1).                                   *)
(***************************************************************************)
EXTENDS Integers, Sequences, FiniteSets, TLC

(***************************************************************************)
(* Characters and Python's str helpers                                     *)
(***************************************************************************)
LowerLetters == "abcdefghijklmnopqrstuvwxyz"
UpperLetters == "ABCDEFGHIJKLMNOPQRSTUVWXYZ"
DigitChars == "0123456789"

CharsOf(str) == { SubSeq(str, i, i) : i \in 1..Len(str) }

AZ09 == CharsOf(LowerLetters) \cup CharsOf(UpperLetters) \cup CharsOf(DigitChars)
az09 == CharsOf(LowerLetters) \cup CharsOf(DigitChars)
\* \w of Python 2's re on a byte string: [a-zA-Z0-9_]
WordChars == AZ09 \cup {"_"}
\* \s of Python 2's re on a byte string (the vertical tab has no TLA+ escape)
SpaceChars == {" ", "\t", "\n", "\r", "\f"}

CharAt(s, p) == SubSeq(s, p, p)

LowerMap == [c \in CharsOf(UpperLetters) |->
               LET i == CHOOSE k \in 1..Len(UpperLetters) : CharAt(UpperLetters, k) = c
               IN  CharAt(LowerLetters, i)]
UpperMap == [c \in CharsOf(LowerLetters) |->
               LET i == CHOOSE k \in 1..Len(LowerLetters) : CharAt(LowerLetters, k) = c
               IN  CharAt(UpperLetters, i)]
LowerChar(c) == IF c \in DOMAIN LowerMap THEN LowerMap[c] ELSE c
UpperChar(c) == IF c \in DOMAIN UpperMap THEN UpperMap[c] ELSE c

RECURSIVE MapChars(_, _, _)
\* str with every character c from position p + 1 on replaced by f[c] when c is in f's domain
MapChars(f, str, p) ==
    IF p >= Len(str) THEN ""
    ELSE LET c == CharAt(str, p + 1)
         IN  (IF c \in DOMAIN f THEN f[c] ELSE c) \o MapChars(f, str, p + 1)

\* str.lower()
Lower(str) == MapChars(LowerMap, str, 0)

\* str.replace(old, new) for a one-character old
ReplaceChar(str, old, new) == MapChars([c \in {old} |-> new], str, 0)

RECURSIVE LStripFrom(_, _)
LStripFrom(str, p) ==
    IF p < Len(str) /\ CharAt(str, p + 1) \in SpaceChars THEN LStripFrom(str, p + 1) ELSE p
RECURSIVE RStripTo(_, _)
RStripTo(str, q) ==
    IF q > 0 /\ CharAt(str, q) \in SpaceChars THEN RStripTo(str, q - 1) ELSE q

\* str.strip()
Strip(str) ==
    LET a == LStripFrom(str, 0)
        b == RStripTo(str, Len(str))
    IN  IF a >= b THEN "" ELSE SubSeq(str, a + 1, b)

RECURSIVE FindFrom(_, _, _)
\* str.find(sub): the 0-based index of the first occurrence at or after p, or -1
FindFrom(str, sub, p) ==
    IF p + Len(sub) > Len(str) THEN -1
    ELSE IF SubSeq(str, p + 1, p + Len(sub)) = sub THEN p
    ELSE FindFrom(str, sub, p + 1)
Find(str, sub) == FindFrom(str, sub, 0)

(***************************************************************************)
(* Regular expressions: the constructs the grammar uses, as a syntax tree  *)
(***************************************************************************)
Lit(str) == [t |-> "lit", s |-> str]
Cls(set) == [t |-> "cls", c |-> set]
NotCls(set) == [t |-> "ncls", c |-> set]
Cat(rs) == [t |-> "cat", rs |-> rs]
Alt(rs) == [t |-> "alt", rs |-> rs]
Star(r) == [t |-> "star", r |-> r]
Plus(r) == Cat(<<r, Star(r)>>)
Opt(r) == Alt(<<r, Lit("")>>)
Ahead(r) == [t |-> "ahead", r |-> r]
Behind(r, w) == [t |-> "behind", r |-> r, w |-> w]
WordBoundary == [t |-> "wb"]
EndOfString == [t |-> "eos"]

RECURSIVE Dedup(_, _, _)
\* seq from index k on, without the values of seen and without repeats, order kept
Dedup(seq, k, seen) ==
    IF k > Len(seq) THEN <<>>
    ELSE IF seq[k] \in seen THEN Dedup(seq, k + 1, seen)
    ELSE <<seq[k]>> \o Dedup(seq, k + 1, seen \cup {seq[k]})

IsWordAt(s, p) == p >= 1 /\ p <= Len(s) /\ CharAt(s, p) \in WordChars

InClass(c, set, ic) == c \in set \/ (ic /\ (LowerChar(c) \in set \/ UpperChar(c) \in set))

RECURSIVE Ends(_, _, _, _)
RECURSIVE CatEnds(_, _, _, _, _)
RECURSIVE CatFrom(_, _, _, _, _, _)
RECURSIVE AltEnds(_, _, _, _, _)
RECURSIVE StarEnds(_, _, _, _)
RECURSIVE StarFrom(_, _, _, _, _, _)

\* The positions at which a match of r starting at p can end, in the order in
\* which Python's backtracking matcher tries them (ic: re.I).
Ends(r, s, p, ic) ==
    CASE r.t = "lit" ->
           LET q == p + Len(r.s)
           IN  IF q > Len(s) THEN <<>>
               ELSE IF r.s = "" THEN <<p>>
               ELSE IF SubSeq(s, p + 1, q) = r.s
                       \/ (ic /\ Lower(SubSeq(s, p + 1, q)) = Lower(r.s))
                    THEN <<q>> ELSE <<>>
      [] r.t = "cls" ->
           IF p < Len(s) /\ InClass(CharAt(s, p + 1), r.c, ic) THEN <<p + 1>> ELSE <<>>
      [] r.t = "ncls" ->
           IF p < Len(s) /\ ~InClass(CharAt(s, p + 1), r.c, ic) THEN <<p + 1>> ELSE <<>>
      [] r.t = "cat" -> CatEnds(r.rs, 1, s, p, ic)
      [] r.t = "alt" -> Dedup(AltEnds(r.rs, 1, s, p, ic), 1, {})
      [] r.t = "star" -> Dedup(StarEnds(r.r, s, p, ic), 1, {})
      [] r.t = "ahead" -> IF Ends(r.r, s, p, ic) # <<>> THEN <<p>> ELSE <<>>
      [] r.t = "behind" ->
           IF p >= r.w /\ (LET es == Ends(r.r, s, p - r.w, ic)
                            IN  \E k \in DOMAIN es : es[k] = p)
           THEN <<p>> ELSE <<>>
      [] r.t = "wb" -> IF IsWordAt(s, p) # IsWordAt(s, p + 1) THEN <<p>> ELSE <<>>
      [] r.t = "eos" -> IF p = Len(s) THEN <<p>> ELSE <<>>

CatEnds(rs, k, s, p, ic) ==
    IF k > Len(rs) THEN <<p>>
    ELSE Dedup(CatFrom(rs, k, s, Ends(rs[k], s, p, ic), 1, ic), 1, {})

\* the k-th item ended at one of es[j..]: the rest of the concatenation from each, in order
CatFrom(rs, k, s, es, j, ic) ==
    IF j > Len(es) THEN <<>>
    ELSE CatEnds(rs, k + 1, s, es[j], ic) \o CatFrom(rs, k, s, es, j + 1, ic)

AltEnds(rs, k, s, p, ic) ==
    IF k > Len(rs) THEN <<>>
    ELSE Ends(rs[k], s, p, ic) \o AltEnds(rs, k + 1, s, p, ic)

\* greedy r*: one more r first (only when it consumes something), then stop
StarEnds(r, s, p, ic) == StarFrom(r, s, p, Ends(r, s, p, ic), 1, ic) \o <<p>>

StarFrom(r, s, p, es, j, ic) ==
    IF j > Len(es) THEN <<>>
    ELSE (IF es[j] > p THEN StarEnds(r, s, es[j], ic) ELSE <<>>)
         \o StarFrom(r, s, p, es, j + 1, ic)

RECURSIVE MatchSegs(_, _, _, _, _)
RECURSIVE MatchSegsFrom(_, _, _, _, _, _, _)
\* A pattern as its top-level segments <<[r, cap]>> (cap: a capturing group).
\* The boundaries <<p, e_k, ..., e_n>> of the first match of segs[k..n] at p that
\* Python's matcher finds, or <<>> when there is none.
MatchSegs(segs, k, s, p, ic) ==
    IF k > Len(segs) THEN <<p>>
    ELSE MatchSegsFrom(segs, k, s, p, Ends(segs[k].r, s, p, ic), 1, ic)

MatchSegsFrom(segs, k, s, p, es, j, ic) ==
    IF j > Len(es) THEN <<>>
    ELSE LET rest == MatchSegs(segs, k + 1, s, es[j], ic)
         IN  IF rest # <<>> THEN <<p>> \o rest
             ELSE MatchSegsFrom(segs, k, s, p, es, j + 1, ic)

\* the captured groups of a match with boundaries bs: a string for one group,
\* a tuple of strings for several
Groups(segs, s, bs) ==
    LET caps == Dedup([k \in 1..Len(segs) |-> IF segs[k].cap THEN k ELSE 0], 1, {0})
        text(k) == SubSeq(s, bs[k] + 1, bs[k + 1])
    IN  IF Len(caps) = 1 THEN text(caps[1])
        ELSE [i \in 1..Len(caps) |-> text(caps[i])]

RECURSIVE FindAllFrom(_, _, _, _)
\* re.findall from position p on: leftmost, non-overlapping; each match's groups
FindAllFrom(segs, s, p, ic) ==
    IF p > Len(s) THEN <<>>
    ELSE LET bs == MatchSegs(segs, 1, s, p, ic)
         IN  IF bs = <<>> THEN FindAllFrom(segs, s, p + 1, ic)
             ELSE <<Groups(segs, s, bs)>>
                  \o FindAllFrom(segs, s, IF bs[Len(bs)] > p THEN bs[Len(bs)] ELSE p + 1, ic)

\* re.findall(pattern, string, flags)
FindAll(segs, s, ic) == FindAllFrom(segs, s, 0, ic)

RECURSIVE SubFrom(_, _, _, _)
\* re.sub from position p on (no pattern of the program matches the empty string)
SubFrom(r, repl, s, p) ==
    IF p >= Len(s) THEN ""
    ELSE LET es == Ends(r, s, p, FALSE)
         IN  IF es # <<>> /\ es[1] > p THEN repl \o SubFrom(r, repl, s, es[1])
             ELSE CharAt(s, p + 1) \o SubFrom(r, repl, s, p + 1)

\* re.sub(pattern, repl, string)
Sub(r, repl, s) == SubFrom(r, repl, s, 0)

\* re.match(pattern, string): a match at the start of the string
Match(r, s) == Ends(r, s, 0, FALSE) # <<>>

(***************************************************************************)
(* The pattern grammar built by EE.__init__                                *)
(***************************************************************************)
W == Cls(WordChars)
S == Cls(SpaceChars)
Dot == Lit(".")

EE_OUTPUT_FORMAT_LIST == "list"
EE_OUTPUT_FORMAT_OBFUSCATION == "obfuscation"

common_domains == <<"gmail", "gee mail", "g mail", "gml", "yahoo", "hotmail">>
common_domains_regex == Alt([i \in DOMAIN common_domains |-> Lit(common_domains[i])])

\* the source list has no comma after "g mail": Python joins the two adjacent
\* string literals into the one entry "g mailgml"
gmail_synonyms == <<"gee mail", "g mail" \o "gml">>
gmail_synonyms_regex == Alt([i \in DOMAIN gmail_synonyms |-> Lit(gmail_synonyms[i])])

com_synonyms ==
    << Cat(<<Lit("com"), WordBoundary>>),
       Cat(<<Lit("co"), Star(S), Dot, Star(S), W, W, Opt(W)>>),
       Cat(<<Lit("co"), Plus(S), Lit("dot"), Plus(S), W, W, Opt(W)>>) >>
com_synonyms_regex == Alt(com_synonyms)

spelled_out_domain_regex ==
    Cat(<< common_domains_regex,
           Cat(<< Alt(<< Cat(<<Lit("dot"), Plus(S)>>), Plus(Dot), Plus(Lit(",")), Plus(S) >>),
                  com_synonyms_regex >>) >>)

AtOrArroba == Alt(<<Lit("at"), Lit("arroba")>>)
\* (?<=\w\w\w|\wat)
AfterWord == Behind(Alt(<<Cat(<<W, W, W>>), Cat(<<W, Lit("at")>>)>>), 3)

\* at_regexes with the bare word "at" accepted whatever follows it
at_regexes_any_at ==
    << Lit("@"),
       Cat(<<Plus(Lit("(")), Lit("@"), Plus(Lit(")"))>>),
       Cat(<<Plus(Lit("[")), Lit("@"), Plus(Lit("]"))>>),
       Cat(<<Plus(Lit("(")), AtOrArroba, Plus(Lit(")"))>>),
       Cat(<<Plus(Lit("[")), AtOrArroba, Plus(Lit("]"))>>),
       Cat(<<Plus(Lit("{")), AtOrArroba, Plus(Lit("}"))>>),
       Cat(<<Plus(S), AtOrArroba, Lit("@")>>),
       Cat(<<Lit("@at"), Plus(S)>>),
       Cat(<<Lit("at"), Plus(S)>>),
       Cat(<<AfterWord, Plus(S), Ahead(spelled_out_domain_regex)>>),
       Cat(<<AfterWord, Lit("[]"), Ahead(Opt(spelled_out_domain_regex))>>) >>

at_regexes ==
    << Lit("@"),
       Cat(<<Plus(Lit("(")), Lit("@"), Plus(Lit(")"))>>),
       Cat(<<Plus(Lit("[")), Lit("@"), Plus(Lit("]"))>>),
       Cat(<<Plus(Lit("(")), AtOrArroba, Plus(Lit(")"))>>),
       Cat(<<Plus(Lit("[")), AtOrArroba, Plus(Lit("]"))>>),
       Cat(<<Plus(Lit("{")), AtOrArroba, Plus(Lit("}"))>>),
       Cat(<<Plus(S), AtOrArroba, Lit("@")>>),
       Cat(<<Lit("@at"), Plus(S)>>),
       Cat(<<Lit("at"), Plus(S), Ahead(spelled_out_domain_regex)>>),
       Cat(<<AfterWord, Plus(S), Ahead(spelled_out_domain_regex)>>),
       Cat(<<AfterWord, Lit("[]"), Ahead(Opt(spelled_out_domain_regex))>>) >>
at_regex == Alt(at_regexes)

at_postfix_regexes ==
    << Cat(<<Plus(Lit(",")), Star(S)>>),
       Cat(<<Plus(Dot), Star(S)>>) >>
at_postfix_regex == Opt(Alt(at_postfix_regexes))

full_at_regex == Cat(<<at_regex, at_postfix_regex, Star(S)>>)

basic_dns_label_regex == Cat(<<Cls(AZ09), Star(Cls(AZ09 \cup {"-"})), Cls(AZ09)>>)
non_dns_regex == NotCls(AZ09 \cup {"-", "."})

wrapped_basic_dns_label_regexes ==
    << basic_dns_label_regex,
       Cat(<<Plus(Lit("(")), basic_dns_label_regex, Plus(Lit(")"))>>),
       Cat(<<Plus(Lit("[")), basic_dns_label_regex, Plus(Lit("]"))>>) >>
dns_label_regex == Alt(wrapped_basic_dns_label_regexes)

dot_regex == Cat(<<Star(Cls({"(", "["})), Lit("dot"), Star(Cls({")", "]"}))>>)
DotOrSpace == Cls({"."} \cup SpaceChars)
dns_separator_regexes ==
    << Cat(<<Star(S), Plus(Dot), Star(S)>>),
       Cat(<<Plus(DotOrSpace), dot_regex, Plus(DotOrSpace)>>),
       Cat(<<Plus(Lit("(")), Plus(Alt(<<Dot, dot_regex>>)), Plus(Lit(")"))>>),
       Cat(<<Plus(Lit("[")), Plus(Dot), Plus(Lit("]"))>>),
       Cat(<<Plus(Lit("{")), Plus(Dot), Plus(Lit("}"))>>),
       Cat(<<Plus(S), Ahead(com_synonyms_regex)>>) >>
\* "(?:" + ",*" + "|".join(...) + ",*" + ")": the leading ,* belongs to the first
\* alternative only and the trailing ,* to the last one only
dns_separator_regex ==
    Alt([i \in DOMAIN dns_separator_regexes |->
           IF i = 1 THEN Cat(<<Star(Lit(",")), dns_separator_regexes[i]>>)
           ELSE IF i = Len(dns_separator_regexes)
                THEN Cat(<<dns_separator_regexes[i], Star(Lit(","))>>)
                ELSE dns_separator_regexes[i]])

\* the capturing group of dns_re
dns_name_regex == Cat(<<dns_label_regex, Star(Cat(<<dns_separator_regex, dns_label_regex>>))>>)
dns_re == << [r |-> full_at_regex, cap |-> FALSE], [r |-> dns_name_regex, cap |-> TRUE] >>

\* [-.!#$%&'*+/?^_`{|}~] without its backquote, which a TLA+ string cannot hold
UsernamePunct ==
    {"-", ".", "!", "#", "$", "%", "&", "'", "*", "+", "/", "?", "^", "_", "{", "|", "}", "~"}
full_username_regex ==
    Cat(<<Plus(Cls(az09)), Star(Cat(<<Cls(UsernamePunct), Plus(Cls(az09))>>))>>)
basic_username_regex ==
    Cat(<< Plus(Cls(az09)),
           Star(Cat(<< Alt(<< Cls({"-", "+", "_", "."}),
                              Cat(<<Opt(Lit("(")), Lit("dot"), Opt(Lit(")"))>>) >>),
                       Plus(Cls(az09)) >>)),
           Star(S) >>)
strict_username_regex == Cat(<<full_username_regex, Ahead(Lit("@"))>>)
username_regex == Alt(<<basic_username_regex, strict_username_regex>>)

email_regex == << [r |-> username_regex, cap |-> TRUE] >> \o dns_re

(***************************************************************************)
(* The normalizers                                                         *)
(***************************************************************************)
\* the test of line 155 without its "$"
IsCommonDomain_prefix(result) == Match(common_domains_regex, result)

\* EE.clean_domain's test on line 155: re.match(common_domains_regex + "$", result)
IsCommonDomain(result) == Match(Cat(<<common_domains_regex, EndOfString>>), result)

\* lines 146-152 of EE.clean_domain
DomainText(regex_match) ==
    Strip(Sub(Plus(Dot), ".",
          Sub(non_dns_regex, "",
          Sub(dot_regex, ".",
          Sub(Plus(S), ".",
          Sub(gmail_synonyms_regex, "gmail", regex_match))))))

\* lines 154-156 of EE.clean_domain
WithCom(result) == IF IsCommonDomain(result) THEN result \o ".com" ELSE result

\* lines 157-165 without the gmail test
CheckedDomain_any_gmail(result) == IF Find(result, ".") < 0 THEN "" ELSE result

\* lines 157-165 of EE.clean_domain
CheckedDomain(result) ==
    IF Find(result, ".") < 0 THEN ""
    ELSE IF Find(result, "gmail") >= 0 /\ result # "gmail.com" THEN ""
    ELSE result

\* EE.clean_domain: the canonical domain, or "" for a rejected fragment
clean_domain(regex_match) == CheckedDomain(WithCom(DomainText(regex_match)))

\* Python's None, as a string that no text of the model holds (TLC compares
\* strings with strings only)
None == "<None>"

MinUsernameLen == 4

\* lines 178-181 without the length test
CheckedUsername_any_length(username) == username

\* lines 178-181 of EE.clean_username
CheckedUsername(username) == IF Len(username) < MinUsernameLen THEN None ELSE username

\* EE.clean_username: the canonical local part, or None for a rejected fragment
clean_username(string) ==
    CheckedUsername(Sub(Cat(<<Opt(Lit("(")), Lit("dot"), Opt(Lit(")"))>>), ".", Strip(string)))

\* Python's truth value of a str or None
Truthy(v) == v # None /\ v # ""

(***************************************************************************)
(* The result assembler                                                    *)
(***************************************************************************)
\* a list's append in the place of Set.add
SetAdd_append(set, e) == Append(set, e)

\* Set.add on a set kept as the sequence of its elements in insertion order
SetAdd(set, e) == IF \E k \in DOMAIN set : set[k] = e THEN set ELSE Append(set, e)

\* lines 189-191 of EE.clean
AddEmail(clean_results, domain, username) ==
    IF Truthy(domain) /\ Truthy(username)
    THEN SetAdd(clean_results, username \o "@" \o domain)
    ELSE clean_results

RECURSIVE CleanFrom(_, _, _)
\* the loop of EE.clean from the k-th match on
CleanFrom(ms, k, clean_results) ==
    IF k > Len(ms) THEN clean_results
    ELSE CleanFrom(ms, k + 1,
                   AddEmail(clean_results, clean_domain(ms[k][2]), clean_username(ms[k][1])))

\* EE.clean, up to the final list(): the Set of canonical addresses
clean(ms) == CleanFrom(ms, 1, <<>>)

\* the sequences with the same elements, as often, as seq
Perms(seq) ==
    { [i \in DOMAIN seq |-> seq[f[i]]] :
        f \in { g \in [DOMAIN seq -> DOMAIN seq] : \A i, j \in DOMAIN seq : g[i] = g[j] => i = j } }

\* list(Set): the elements of the Set in the order its hashing gives, which the
\* program does not fix
ListOfSet(set) == Perms(set)

\* username.strip() + "@" + domain.strip()
RawString(tuc) == Strip(tuc[1]) \o "@" \o Strip(tuc[2])

\* list.remove(x): without the first element equal to x (raised: the ValueError
\* of a list that holds no x)
ListRemove(list, x) ==
    IF \E k \in DOMAIN list : list[k] = x
    THEN LET k == CHOOSE i \in DOMAIN list : list[i] = x /\ \A j \in 1..(i - 1) : list[j] # x
         IN  [list |-> SubSeq(list, 1, k - 1) \o SubSeq(list, k + 1, Len(list)), raised |-> FALSE]
    ELSE [list |-> list, raised |-> TRUE]

\* lines 227-228: unclean.remove(tuc), with what list.remove gave
Removed(st, left) ==
    IF left.raised THEN [st EXCEPT !.raised = TRUE] ELSE [st EXCEPT !.unclean = left.list]

\* lines 229-234 left out: no other rendering marks co
Marked_never(co, st, domain, username) == st

\* lines 229-234: a tuple that is not co verbatim and normalizes to co marks co
Marked(co, st, domain, username) ==
    IF Truthy(domain) /\ Truthy(username) /\ username \o "@" \o domain = co
    THEN [st EXCEPT !.marked = TRUE]
    ELSE st

\* lines 224-234, one round of the loop over tmp_unclean
ScanStep(co, st, tuc) ==
    IF RawString(tuc) = co
    THEN Removed(st, ListRemove(st.unclean, tuc))
    ELSE Marked(co, st, clean_domain(tuc[2]), clean_username(tuc[1]))

RECURSIVE NormalizeScan(_, _, _, _)
\* lines 223-234, the loop over tmp_unclean from its k-th tuple on;
\* st = [unclean, marked, raised]
NormalizeScan(co, tmp_unclean, k, st) ==
    IF k > Len(tmp_unclean) \/ st.raised THEN st
    ELSE NormalizeScan(co, tmp_unclean, k + 1, ScanStep(co, st, tmp_unclean[k]))

\* line 221: co is the raw string of some tuple of tmp_unclean
IsLiteral(co, tmp_unclean) ==
    \E k \in DOMAIN tmp_unclean :
        /\ Truthy(tmp_unclean[k][2]) /\ Truthy(tmp_unclean[k][1])
        /\ RawString(tmp_unclean[k]) = co

\* lines 235-236
Scanned(co, st) ==
    [email |-> [email |-> co, obfuscation |-> IF st.marked THEN "True" ELSE "False"],
     unclean |-> st.unclean, raised |-> st.raised]

\* lines 217-239, one round of the loop of EE.normalize over clean: the record
\* appended to output for co, and the list unclean it leaves
NormalizeOne(co, unclean) ==
    IF IsLiteral(co, unclean)
    THEN Scanned(co, NormalizeScan(co, unclean, 1,
                                   [unclean |-> unclean, marked |-> FALSE, raised |-> FALSE]))
    ELSE [email |-> [email |-> co, obfuscation |-> "True"],
          unclean |-> unclean, raised |-> FALSE]

\* line 239 after a round: output.append(email)
NormalizeRound(acc, one) ==
    IF one.raised THEN [acc EXCEPT !.raised = TRUE]
    ELSE [output |-> Append(acc.output, one.email), unclean |-> one.unclean, raised |-> FALSE]

RECURSIVE NormalizeFrom(_, _, _)
\* the loop of EE.normalize over clean from its k-th address on;
\* acc = [output, unclean, raised]
NormalizeFrom(cl, k, acc) ==
    IF k > Len(cl) \/ acc.raised THEN acc
    ELSE NormalizeFrom(cl, k + 1, NormalizeRound(acc, NormalizeOne(cl[k], acc.unclean)))

\* EE.normalize (it reads self.output_format, not its third parameter)
normalize(cl, unclean, self_output_format) ==
    IF self_output_format = EE_OUTPUT_FORMAT_LIST
    THEN [output |-> cl, unclean |-> unclean, raised |-> FALSE]
    ELSE NormalizeFrom(cl, 1, [output |-> <<>>, unclean |-> unclean, raised |-> FALSE])

(***************************************************************************)
(* The entry points                                                        *)
(***************************************************************************)
\* lines 273-276 of EE.extract_email
prenormalize(string) ==
    LET l1 == ReplaceChar(ReplaceChar(Lower(string), "\n", " "), "\r", "")
        l2 == Sub(Plus(Cls({"*", "?"})), " ", l1)
        l3 == Sub(Lit("\\n"), " ", l2)
    IN  Sub(Cat(<<Plus(S), Lit("g"), Plus(S), Lit("mail"), Plus(S)>>), " gmail ", l3)

RECURSIVE JoinFrom(_, _, _)
JoinFrom(sep, list, k) ==
    IF k > Len(list) THEN ""
    ELSE (IF k > 1 THEN sep ELSE "") \o list[k] \o JoinFrom(sep, list, k + 1)

\* sep.join(list), items_are_str telling whether the items are strings: None for
\* the TypeError that join raises on an item that is no string
Join(sep, list, items_are_str) ==
    IF list = <<>> \/ items_are_str THEN JoinFrom(sep, list, 1) ELSE None

\* lines 288-291 of EE.extract_email: the value returned, or None when join raises.
\* The items of output are strings in list mode and dicts in obfuscation mode
\* (EE.normalize).
Returned(output, return_as_string, self_output_format) ==
    IF return_as_string
    THEN Join(",", output, self_output_format = EE_OUTPUT_FORMAT_LIST)
    ELSE output

\* lines 204-206 of EE.extract_domain
clean_domains(ms) == [k \in DOMAIN ms |-> clean_domain(ms[k])]

\* EE.extract_domain
extract_domain(string) == clean_domains(FindAll(dns_re, string, TRUE))

\* lines 273-280 of EE.extract_email: the raw matches of a text
email_matches(string) == FindAll(email_regex, prenormalize(string), FALSE)

(***************************************************************************)
(* The engine as a state machine                                           *)
(***************************************************************************)
VARIABLES
    output_format,   \* self.output_format; None while no engine is constructed
    text,            \* the text the caller is about to pass
    nparts,          \* the number of parts the caller put into text
    op,              \* the last call: "none", "new", "set_output_format",
                     \* "extract_email", "extract_domain"
    arg,             \* the mode or flag argument of the last call
    raised,          \* whether the last call ended in an exception
    matches,         \* the last call's re.findall result
    clean_results,   \* extract_email: the list EE.clean returned
    output,          \* extract_email: the list EE.normalize returned;
                     \* extract_domain: its clean_results
    ret,             \* extract_email: the joined string returned for return_as_string
                     \* (None when join raised; without the flag output is returned)
    calls            \* the extract_email calls in progress, one record per caller

vars == <<output_format, text, nparts, op, arg, raised, matches, clean_results, output, ret, calls>>
engine == <<output_format>>
input == <<text, nparts>>
last == <<op, arg, raised, matches, clean_results, output, ret>>

Formats == {EE_OUTPUT_FORMAT_LIST, EE_OUTPUT_FORMAT_OBFUSCATION}
\* the modes a caller passes: the two of the program and two that it rejects
FormatArgs == Formats \cup {"json", "LIST"}

NoCall == /\ op = "none" /\ arg = None /\ raised = FALSE /\ matches = <<>>
          /\ clean_results = <<>> /\ output = <<>> /\ ret = None

\* EE.set_output_format storing the mode before it validates it
set_output_format_store_first(self_output_format, _output_format) ==
    [output_format |-> _output_format, raised |-> _output_format \notin Formats]

\* EE.set_output_format: the mode the engine holds after the call, and whether
\* the call raised
set_output_format(self_output_format, _output_format) ==
    IF _output_format \notin Formats
    THEN [output_format |-> self_output_format, raised |-> TRUE]
    ELSE [output_format |-> _output_format, raised |-> FALSE]

\* the engine after set_output_format gave r
Stored(r) ==
    /\ output_format' = r.output_format
    /\ raised' = r.raised

\* EE(_output_format): __init__ builds the grammar and ends in set_output_format;
\* when that raises no engine exists
New(f) ==
    /\ output_format = None
    /\ op = "none"
    /\ Stored(set_output_format(None, f))
    /\ op' = "new"
    /\ arg' = f
    /\ UNCHANGED <<input, matches, clean_results, output, ret, calls>>

SetOutputFormat(f) ==
    /\ output_format # None
    /\ op = "none"
    /\ Stored(set_output_format(output_format, f))
    /\ op' = "set_output_format"
    /\ arg' = f
    /\ UNCHANGED <<input, matches, clean_results, output, ret, calls>>

\* lines 288-291 with the outcome n of EE.normalize
Finish(ms, cl, n, return_as_string, v) ==
    /\ matches' = ms
    /\ clean_results' = cl
    /\ output' = n.output
    /\ arg' = return_as_string
    /\ raised' = (n.raised \/ (return_as_string /\ v = None))
    /\ ret' = IF return_as_string THEN v ELSE None

\* lines 286-291 with the list cl that EE.clean returned
Assemble(ms, cl, n) ==
    \E return_as_string \in BOOLEAN :
        Finish(ms, cl, n, return_as_string,
               IF n.raised THEN None ELSE Returned(n.output, return_as_string, output_format))

\* lines 281-291 with the raw matches ms
Extract(ms) == \E cl \in ListOfSet(clean(ms)) : Assemble(ms, cl, normalize(cl, ms, output_format))

\* EE.extract_email(text, return_as_string)
ExtractEmail ==
    /\ output_format # None
    /\ op = "none"
    /\ Extract(email_matches(text))
    /\ op' = "extract_email"
    /\ UNCHANGED <<engine, input, calls>>

\* lines 204-209 with the raw fragments ms
Domains(ms) ==
    /\ matches' = ms
    /\ output' = clean_domains(ms)

\* EE.extract_domain(text)
ExtractDomain ==
    /\ output_format # None
    /\ op = "none"
    /\ Domains(FindAll(dns_re, text, TRUE))
    /\ op' = "extract_domain"
    /\ raised' = FALSE
    /\ UNCHANGED <<engine, input, arg, clean_results, ret, calls>>

\* the caller takes the outcome of the last call
Consume ==
    /\ op # "none"
    /\ op' = "none" /\ arg' = None /\ raised' = FALSE /\ matches' = <<>>
    /\ clean_results' = <<>> /\ output' = <<>> /\ ret' = None
    /\ UNCHANGED <<engine, input, calls>>

(***************************************************************************)
(* Concurrent extract_email calls on one engine, a step per statement group *)
(***************************************************************************)
NCallers == 2
Callers == 1..NCallers

\* the texts of the concurrent calls
ConcTexts == { "john@yahoo.com jane@gmail.com", "john(at)yahoo(dot)com john@yahoo.com",
               "jane@gmail" }
\* the raw matches and the domains of these texts
ConcMatches == [t \in ConcTexts |-> email_matches(t)]
ConcDomains == [t \in ConcTexts |-> extract_domain(t)]

Idle == [pc |-> "idle", fn |-> "none", string |-> "", return_as_string |-> FALSE, matches |-> <<>>,
         clean_results |-> <<>>, k |-> 1, output |-> <<>>, ret |-> None, raised |-> FALSE]

\* the list kept on the engine: a store changes it for every call
StoreUnclean_shared(cs, c, unclean) == [x \in DOMAIN cs |-> [cs[x] EXCEPT !.matches = unclean]]

\* unclean is the list matches of the call's own frame (lines 280 and 286):
\* a store into it changes that call's list only
StoreUnclean(cs, c, unclean) == [cs EXCEPT ![c].matches = unclean]

\* lines 273-280
Begin(c) ==
    /\ calls[c].pc = "idle"
    /\ \E t \in ConcTexts, flag \in BOOLEAN :
         calls' = [calls EXCEPT ![c] = [Idle EXCEPT !.pc = "clean", !.fn = "extract_email",
                                                   !.string = t,
                                                   !.return_as_string = flag,
                                                   !.matches = ConcMatches[t]]]
    /\ UNCHANGED <<engine, input, last>>

\* EE.extract_domain(string), lines 195-209: it reads the grammar and the
\* text and keeps its lists in its own frame
DomainStep(c) ==
    /\ calls[c].pc = "idle"
    /\ \E t \in ConcTexts :
         calls' = [calls EXCEPT ![c] = [Idle EXCEPT !.pc = "done", !.fn = "extract_domain",
                                                   !.string = t,
                                                   !.output = ConcDomains[t]]]
    /\ UNCHANGED <<engine, input, last>>

\* line 281
CleanStep(c) ==
    /\ calls[c].pc = "clean"
    /\ \E cl \in ListOfSet(clean(calls[c].matches)) :
         calls' = [calls EXCEPT ![c].clean_results = cl, ![c].pc = "normalize"]
    /\ UNCHANGED <<engine, input, last>>

\* the call's frame after a round of the loop of EE.normalize gave one
Round(cs, c, one) ==
    [StoreUnclean(cs, c, one.unclean) EXCEPT
        ![c].output = IF one.raised THEN @ ELSE Append(@, one.email),
        ![c].k = @ + 1,
        ![c].raised = one.raised,
        ![c].pc = IF one.raised THEN "done" ELSE @]

\* line 286: EE.normalize, one round of its loop over clean at a time
NormalizeStep(c) ==
    /\ calls[c].pc = "normalize"
    /\ IF output_format = EE_OUTPUT_FORMAT_LIST
       THEN calls' = [calls EXCEPT ![c].output = calls[c].clean_results, ![c].pc = "return"]
       ELSE IF calls[c].k > Len(calls[c].clean_results)
       THEN calls' = [calls EXCEPT ![c].pc = "return"]
       ELSE calls' = Round(calls, c, NormalizeOne(calls[c].clean_results[calls[c].k],
                                                  calls[c].matches))
    /\ UNCHANGED <<engine, input, last>>

\* the call's frame after lines 288-291 gave v
Done(cs, c, v) ==
    [cs EXCEPT ![c].pc = "done",
               ![c].raised = cs[c].return_as_string /\ v = None,
               ![c].ret = IF cs[c].return_as_string THEN v ELSE None]

\* lines 288-291
ReturnStep(c) ==
    /\ calls[c].pc = "return"
    /\ calls' = Done(calls, c, Returned(calls[c].output, calls[c].return_as_string, output_format))
    /\ UNCHANGED <<engine, input, last>>

(***************************************************************************)
(* The callers' texts                                                      *)
(***************************************************************************)
MaxRenderings == 2
MaxDomainTokens == 3

Usernames == {"SweetAbby90", "john"}
BareProviders == { common_domains[i] : i \in DOMAIN common_domains }
\* a username, the bare word "at", a bare provider name, no TLD token
BareAtTexts == { u \o " at " \o d : u \in Usernames, d \in BareProviders }
\* the same with the glyph for the word, for the provider names of one word
BareGlyphTexts == { u \o "@" \o d : u \in Usernames, d \in {"gmail", "yahoo", "hotmail"} }

\* renderings of addresses: literal, obfuscated, rejected, none at all
MoreRenderings ==
    { "john@yahoo.com", "john(at)yahoo(dot)com", "jane@gmail.com", "bob @ yahoo dot com" }
Renderings ==
    MoreRenderings \cup BareAtTexts \cup BareGlyphTexts \cup
    { "HOTMAIL: sebasccelis@hotmail.com", "marycomeaux62(@)gmail(dot)com",
      "john at yahoo dot com", "john@xgmail.com", "j(dot)doe[at]yahoo,com",
      "bob@yahoo.com", "no address\nhere" }

AddRendering(r) ==
    /\ op = "none"
    /\ nparts < MaxRenderings
    /\ r \in (IF nparts = 0 THEN Renderings ELSE MoreRenderings)
    /\ text' = (IF nparts = 0 THEN r ELSE text \o " " \o r)
    /\ nparts' = nparts + 1
    /\ UNCHANGED <<engine, last, calls>>

\* the pieces of a domain part
DomainTokens == {"gmail", "gml", "yahoo", "com", "x", ".", " ", "(dot)", " dot "}
DomainPrefix == "john@"

AddDomainToken(t) ==
    /\ op = "none"
    /\ nparts < MaxDomainTokens
    /\ text' = text \o t
    /\ nparts' = nparts + 1
    /\ UNCHANGED <<engine, last, calls>>

(***************************************************************************)
(* Specifications                                                          *)
(***************************************************************************)
\* no engine yet; the caller builds a text of renderings and calls the engine
Init ==
    /\ output_format = None
    /\ text = "" /\ nparts = 0
    /\ NoCall
    /\ calls = [c \in Callers |-> Idle]

Next ==
    \/ \E f \in FormatArgs : New(f)
    \/ \E f \in FormatArgs : SetOutputFormat(f)
    \/ \E r \in Renderings : AddRendering(r)
    \/ ExtractEmail
    \/ Consume

Spec == Init /\ [][Next]_vars

\* an engine of the default mode; the caller builds a domain part after "john@"
InitDomain ==
    /\ output_format = EE_OUTPUT_FORMAT_LIST
    /\ text = DomainPrefix /\ nparts = 0
    /\ NoCall
    /\ calls = [c \in Callers |-> Idle]

NextDomain ==
    \/ \E t \in DomainTokens : AddDomainToken(t)
    \/ ExtractDomain
    \/ ExtractEmail
    \/ Consume

SpecDomain == InitDomain /\ [][NextDomain]_vars

\* an engine of either mode; every caller makes one extract_email call
InitConcurrent ==
    /\ output_format \in Formats
    /\ text = "" /\ nparts = 0
    /\ NoCall
    /\ calls = [c \in Callers |-> Idle]

NextConcurrent ==
    \E c \in Callers :
        Begin(c) \/ DomainStep(c) \/ CleanStep(c) \/ NormalizeStep(c) \/ ReturnStep(c)

SpecConcurrent == InitConcurrent /\ [][NextConcurrent]_vars

(***************************************************************************)
(* Properties                                                              *)
(***************************************************************************)
Contains(str, sub) == Find(str, sub) >= 0
UsernameOf(email) == SubSeq(email, 1, Find(email, "@"))
DomainOf(email) == SubSeq(email, Find(email, "@") + 2, Len(email))
SetOf(seq) == { seq[k] : k \in DOMAIN seq }
NoDuplicates(seq) == \A i, j \in DOMAIN seq : seq[i] = seq[j] => i = j

EmailCall == op = "extract_email"
DomainCall == op = "extract_domain"
ListCall == EmailCall /\ output_format = EE_OUTPUT_FORMAT_LIST
ObfuscationCall == EmailCall /\ output_format = EE_OUTPUT_FORMAT_OBFUSCATION

\* a raw match whose two parts both normalize
Accepted(m) == Truthy(clean_domain(m[2])) /\ Truthy(clean_username(m[1]))
\* the canonical address of a raw match
Canonical(m) == clean_username(m[1]) \o "@" \o clean_domain(m[2])

\* some raw match is co verbatim
Verbatim(co) == \E k \in DOMAIN matches : RawString(matches[k]) = co
\* some raw match that is not co verbatim normalizes to co
OtherRendering(co) ==
    \E k \in DOMAIN matches :
        RawString(matches[k]) # co /\ Accepted(matches[k]) /\ Canonical(matches[k]) = co

\* C1 as stated: in obfuscation mode an address of the result is marked not
\* obfuscated if and only if some raw match equals it verbatim.
C1_VerbatimIffNotObfuscated ==
    ObfuscationCall =>
        \A k \in DOMAIN output :
            (output[k].obfuscation = "False") <=> Verbatim(output[k].email)

\* C1 amended: in obfuscation mode the result has one record per canonical
\* address, and an address is marked not obfuscated if and only if some raw
\* match equals it verbatim and no raw match that differs from it verbatim
\* normalizes to it.
C1_NotObfuscatedIffOnlyVerbatim ==
    ObfuscationCall =>
        /\ Len(output) = Len(clean_results)
        /\ \A k \in DOMAIN output :
             /\ output[k].email = clean_results[k]
             /\ output[k].obfuscation \in {"True", "False"}
             /\ (output[k].obfuscation = "False")
                  <=> (Verbatim(output[k].email) /\ ~OtherRendering(output[k].email))

\* a text with a literal and an obfuscated rendering of one address was extracted
C1_Witness ==
    /\ ObfuscationCall
    /\ \E k \in DOMAIN output :
         /\ Verbatim(output[k].email) /\ OtherRendering(output[k].email)
         /\ output[k].obfuscation = "True"

\* C2: a raw domain fragment that contains "gmail" normalizes to "gmail.com"
\* or is rejected, no normalized domain contains "gmail" and differs from
\* "gmail.com", and no address extract_email returns has such a domain.
C2_GmailIsExact ==
    /\ DomainCall =>
         \A k \in DOMAIN matches :
             /\ Contains(matches[k], "gmail") => output[k] \in {"gmail.com", ""}
             /\ Contains(output[k], "gmail") => output[k] = "gmail.com"
    /\ EmailCall =>
         \A k \in DOMAIN clean_results :
             Contains(DomainOf(clean_results[k]), "gmail")
                 => DomainOf(clean_results[k]) = "gmail.com"

\* a fragment with a dot that holds "gmail" and more was rejected
C2_Witness ==
    /\ DomainCall
    /\ \E k \in DOMAIN matches :
         /\ Contains(matches[k], "gmail") /\ Contains(matches[k], ".")
         /\ matches[k] # "gmail.com" /\ output[k] = ""

\* the username of a raw match after trimming and dot replacement
TrimmedUsername(m) ==
    Sub(Cat(<<Opt(Lit("(")), Lit("dot"), Opt(Lit(")"))>>), ".", Strip(m[1]))

\* C3: every address EE.clean returns has a username of at least 4 characters
\* and a domain with a dot, and comes from a raw match whose trimmed,
\* dot-replaced username has at least 4 characters and whose normalized domain
\* has a dot; the other raw matches contribute nothing.
C3_AcceptedShape ==
    EmailCall =>
        \A k \in DOMAIN clean_results :
            /\ Len(UsernameOf(clean_results[k])) >= 4
            /\ Contains(DomainOf(clean_results[k]), ".")
            /\ \E j \in DOMAIN matches :
                 /\ Len(TrimmedUsername(matches[j])) >= 4
                 /\ Contains(clean_domain(matches[j][2]), ".")
                 /\ clean_results[k] = TrimmedUsername(matches[j]) \o "@" \o clean_domain(matches[j][2])

\* a raw match with a good domain and a username of fewer than 4 characters
\* was dropped
C3_Witness ==
    /\ EmailCall
    /\ \E j \in DOMAIN matches :
         /\ Len(TrimmedUsername(matches[j])) < 4
         /\ Contains(clean_domain(matches[j][2]), ".")
         /\ \A k \in DOMAIN clean_results :
              DomainOf(clean_results[k]) # clean_domain(matches[j][2])

\* C4: in list mode the result has no duplicates and holds exactly the
\* canonical addresses of the raw matches whose two parts normalize.
C4_DuplicateFreeSet ==
    ListCall =>
        /\ NoDuplicates(output)
        /\ SetOf(output) = { Canonical(matches[k]) : k \in { j \in DOMAIN matches : Accepted(matches[j]) } }

\* two different renderings of one address gave one entry
C4_Witness ==
    /\ ListCall
    /\ Len(output) = 1
    /\ \E i, j \in DOMAIN matches :
         /\ RawString(matches[i]) # RawString(matches[j])
         /\ Accepted(matches[i]) /\ Accepted(matches[j])
         /\ Canonical(matches[i]) = Canonical(matches[j])

\* C5: extract_email returns a value and never ends in an error, in both modes
\* and for both values of return_as_string.
C5_NeverRaises == EmailCall => ~raised

\* C6: a mode outside {"list", "obfuscation"} makes the constructor and
\* set_output_format raise and leaves the engine's mode as it was, a mode inside
\* the set is stored, and the mode of an engine is always one of the two.
C6_ModeStep ==
    /\ output_format' # None => output_format' \in Formats
    /\ (op = "none" /\ op' \in {"new", "set_output_format"}) =>
         IF arg' \in Formats
         THEN ~raised' /\ output_format' = arg'
         ELSE raised' /\ output_format' = output_format
C6_ModeAlwaysValid == [][C6_ModeStep]_vars

\* set_output_format raised on an engine, which kept its mode
C6_Witness ==
    /\ op = "set_output_format" /\ raised
    /\ arg \notin Formats /\ output_format \in Formats

\* C7: a domain that clean_domain returned for a raw fragment is returned
\* unchanged when it is normalized again.
C7_Idempotent ==
    DomainCall =>
        \A k \in DOMAIN output : output[k] # "" => clean_domain(output[k]) = output[k]

\* a fragment with a spelled-out dot was accepted in its canonical form
C7_Witness ==
    /\ DomainCall
    /\ \E k \in DOMAIN output :
         Contains(matches[k], "(dot)") /\ output[k] # "" /\ output[k] # matches[k]

\* the one address the claim expects for a username and a bare provider
Expected(u, d) == <<Lower(u) \o "@" \o d \o ".com">>

\* C8 as stated: in list mode a username, the bare word "at" and a bare
\* provider name yield exactly username@provider.com.
C8_BareAtYieldsAddress ==
    ListCall =>
        \A u \in Usernames, d \in BareProviders :
            text = u \o " at " \o d => output = Expected(u, d)

\* C8 amended: in list mode a username, the bare word "at" and a bare provider
\* name with no TLD token yield the empty result; with the glyph "@" in the
\* place of the word, a one-word provider name gets ".com" appended and the
\* result is exactly username@provider.com.
C8_BareAtYieldsNothing ==
    ListCall =>
        /\ text \in BareAtTexts => output = <<>>
        /\ \A u \in Usernames, d \in {"gmail", "yahoo", "hotmail"} :
             text = u \o "@" \o d => output = Expected(u, d)

\* the text of the claim was extracted in list mode
C8_Witness == ListCall /\ text = "SweetAbby90 at gmail" /\ output = <<>>

\* the gmail synonyms of the vocabulary, alone or followed by a separator and "com"
GmailSynonyms == {"gee mail", "g mail", "gml"}
SynonymFragments ==
    GmailSynonyms \cup { g \o sep \o "com" : g \in GmailSynonyms, sep \in {".", " ", "(dot)", " dot "} }

\* C9: a raw fragment that is a gmail synonym, alone or followed by a separator
\* and "com", normalizes to "gmail.com", and no normalized domain is "g.mail",
\* "g.mail.com" or "gml.com".
C9_SynonymsBecomeGmail ==
    DomainCall =>
        \A k \in DOMAIN matches :
            /\ matches[k] \in SynonymFragments => output[k] = "gmail.com"
            /\ output[k] \notin {"g.mail", "g.mail.com", "gml.com"}

\* the outcomes of EE.normalize for a call that runs alone in mode f on text t
\* with raw matches ms: one for each order in which line 193 can list the
\* addresses
AloneOn(t, ms, f) ==
    { [string |-> t, clean_results |-> cl, n |-> normalize(cl, ms, f)] :
        cl \in ListOfSet(clean(ms)) }
AloneIn(f) == UNION { AloneOn(t, email_matches(t), f) : t \in ConcTexts }
AloneList == AloneIn(EE_OUTPUT_FORMAT_LIST)
AloneObfuscation == AloneIn(EE_OUTPUT_FORMAT_OBFUSCATION)
AloneDomain == { [string |-> t, output |-> extract_domain(t)] : t \in ConcTexts }

\* what a finished call returned, against the same call alone
SameReturn(me, v) ==
    /\ me.raised = (me.return_as_string /\ v = None)
    /\ me.ret = IF me.return_as_string THEN v ELSE None
SameAsAlone(me, n) ==
    /\ ~n.raised
    /\ me.output = n.output
    /\ SameReturn(me, Returned(n.output, me.return_as_string, output_format))
Alone(me) ==
    IF me.fn = "extract_domain"
    THEN [string |-> me.string, output |-> me.output] \in AloneDomain
    ELSE \E a \in IF output_format = EE_OUTPUT_FORMAT_LIST THEN AloneList ELSE AloneObfuscation :
             /\ a.string = me.string
             /\ a.clean_results = me.clean_results
             /\ SameAsAlone(me, a.n)

\* C10: the steps of extraction calls never change the engine's mode, and in
\* every interleaving a finished call has returned what the same call returns
\* alone on the same mode and text.
C10_CallsAlone == \A c \in Callers : calls[c].pc = "done" => Alone(calls[c])
C10_EngineKept == output_format' = output_format
C10_Independent == []C10_CallsAlone /\ [][C10_EngineKept]_vars

\* a call finished with a literal address while another call on the same text
\* is in its loop and has removed a tuple from its own list
C10_Witness ==
    \E c, d \in Callers :
        /\ c # d
        /\ calls[c].string = calls[d].string
        /\ calls[c].pc = "normalize"
        /\ Len(calls[c].matches) < Len(ConcMatches[calls[c].string])
        /\ calls[d].pc = "done" /\ calls[d].fn = "extract_email"
        /\ output_format = EE_OUTPUT_FORMAT_OBFUSCATION
        /\ \E k \in DOMAIN calls[d].output : calls[d].output[k].obfuscation = "False"

====
